---- MODULE Spec2Model ----
(***************************************************************************)
(* TyreDegradationWindow (src/gui/tyre_degradation_window.py): the per-    *)
(* driver telemetry store, the stint segmentation and health curve that    *)
(* update_plot derives from it, and the view handed to the figure.         *)
(*                                                                         *)
(* Health percentages are Python floats in the code; here they are exact   *)
(* rationals [num, den] (den > 0), so floating-point rounding is not       *)
(* modelled.                                                               *)
(***************************************************************************)
EXTENDS Integers, Sequences, FiniteSets, TLC

VARIABLES
    current_driver,   \* self.current_driver
    driver_data,      \* self.driver_data: driver code -> list of tyre_data dicts
    combo_items,      \* the item texts of self.driver_combo, in order
    view,             \* what the last update_plot pass drew on self.figure
    frames_received,  \* number of on_telemetry_data calls made by the telemetry source
    appended          \* history variable: per driver, every tyre_data appended (line 160)
                      \* since driver_data was last set to {}, in order

vars == <<current_driver, driver_data, combo_items, view, frames_received, appended>>

----------------------------------------------------------------------------
(* Bounds of the model.                                                    *)

\* The code keeps the last 1000 points per driver (lines 161-163); the model
\* is checked with a shorter history so that eviction is reached.
RetentionCap == 3

\* Number of telemetry arrivals explored.
MaxFrames == 4

\* Longest history handed to update_plot in CurveSpec.
MaxStintLen == 20

----------------------------------------------------------------------------
(* Python helpers.                                                         *)

ALL_DRIVERS == "All Drivers"

\* dict.get(key, default)
Get(d, key, default) == IF key \in DOMAIN d THEN d[key] ELSE default

\* seq[-n:]
LastN(s, n) == IF Len(s) <= n THEN s ELSE SubSeq(s, Len(s) - n + 1, Len(s))

Max2(a, b) == IF a >= b THEN a ELSE b

RECURSIVE SeqMax(_, _)
\* max(..., default=dflt) over a sequence of integers
SeqMax(s, dflt) ==
    IF s = <<>> THEN dflt
    ELSE IF Len(s) = 1 THEN s[1]
    ELSE Max2(s[1], SeqMax(Tail(s), dflt))

Range(s) == {s[i] : i \in DOMAIN s}

\* Driver codes in ascending string order (what sorted() yields on them).
DriverCodes == <<"HAM", "VER">>

DriverCodesSet == Range(DriverCodes)

CodeRank(code) == CHOOSE i \in DOMAIN DriverCodes : DriverCodes[i] = code

----------------------------------------------------------------------------
(* Configuration tables of __init__.                                       *)

\* self.expected_tyre_life.get(compound, 25)
ExpectedTyreLife(compound) ==
    CASE compound = 0 -> 20
      [] compound = 1 -> 25
      [] compound = 2 -> 30
      [] compound = 3 -> 18
      [] compound = 4 -> 22
      [] OTHER -> 25

----------------------------------------------------------------------------
(* on_telemetry_data: the per-driver store (lines 148-163).                *)

\* Mutant: a missing lap defaults to 1.
TyreData_LapDefaultsToOne(frame_index, pos) ==
    [frame     |-> frame_index,
     tyre      |-> Get(pos, "tyre", 0),
     tyre_life |-> Get(pos, "tyre_life", 0),
     lap       |-> Get(pos, "lap", 1)]

\* The tyre_data dict built for one driver of a frame (lines 154-159).
TyreData(frame_index, pos) ==
    [frame     |-> frame_index,
     tyre      |-> Get(pos, "tyre", 0),
     tyre_life |-> Get(pos, "tyre_life", 0),
     lap       |-> Get(pos, "lap", 0)]

\* Mutant: the cap of lines 162-163 left out.
CapHistory_NoTruncate(history) == history

\* Mutant: history[:cap] instead of history[-cap:].
CapHistory_KeepOldest(history) ==
    IF Len(history) > RetentionCap THEN SubSeq(history, 1, RetentionCap) ELSE history

\* Lines 162-163: keep the last RetentionCap points.
CapHistory(history) ==
    IF Len(history) > RetentionCap THEN LastN(history, RetentionCap) ELSE history

\* Mutant: a sample arriving for a full history is dropped.
RecordEntry_DropsWhenFull(data, code, tyre_data) ==
    LET old == IF code \in DOMAIN data THEN data[code] ELSE <<>>
    IN  IF Len(old) >= RetentionCap THEN data
        ELSE (code :> Append(old, tyre_data)) @@ data

\* Lines 151-163 for one driver: create the list if absent, append, cap.
RecordEntry(data, code, tyre_data) ==
    LET old == IF code \in DOMAIN data THEN data[code] ELSE <<>>
    IN  (code :> CapHistory(Append(old, tyre_data))) @@ data

\* Line 160 alone, for the history variable.
LogEntry(log, code, tyre_data) ==
    (code :> Append(IF code \in DOMAIN log THEN log[code] ELSE <<>>, tyre_data)) @@ log

RECURSIVE LogDrivers(_, _, _)
LogDrivers(log, drivers, frame_index) ==
    IF drivers = <<>> THEN log
    ELSE LogDrivers(LogEntry(log, drivers[1].code, TyreData(frame_index, drivers[1].pos)),
                    Tail(drivers), frame_index)

RECURSIVE RecordDrivers(_, _, _)
\* The loop of line 150 over drivers.items(), in dict order.
RecordDrivers(data, drivers, frame_index) ==
    IF drivers = <<>> THEN data
    ELSE RecordDrivers(RecordEntry(data, drivers[1].code,
                                   TyreData(frame_index, drivers[1].pos)),
                       Tail(drivers), frame_index)

----------------------------------------------------------------------------
(* update_plot.compute_degradation_series (lines 194-252).                 *)

RECURSIVE InsertByFrame(_, _)
\* Stable insertion: e goes after every element whose frame is <= e.frame.
InsertByFrame(sorted, e) ==
    IF sorted = <<>> THEN <<e>>
    ELSE IF sorted[Len(sorted)].frame <= e.frame THEN Append(sorted, e)
    ELSE Append(InsertByFrame(SubSeq(sorted, 1, Len(sorted) - 1), e),
                sorted[Len(sorted)])

RECURSIVE SortedFrom(_, _, _)
SortedFrom(entries, i, acc) ==
    IF i > Len(entries) THEN acc
    ELSE SortedFrom(entries, i + 1, InsertByFrame(acc, entries[i]))

\* Mutant: the sort of line 197 left out.
SortedByFrame_Unsorted(entries) == entries

\* Line 197: sorted(entries, key=lambda x: x['frame']); Python's sort is stable.
SortedByFrame(entries) == SortedFrom(entries, 1, <<>>)

\* Mutant: the compound test of line 212 left out.
IsNewStint_AgeOnly(stints, compound, life, previous_life) ==
    \/ stints = <<>>
    \/ (previous_life # <<>> /\ life < previous_life[1])

\* Mutant: line 213 compares with the stint's start_life, not the previous sample.
IsNewStint_VsStintStart(stints, compound, life, previous_life) ==
    \/ stints = <<>>
    \/ stints[Len(stints)].compound # compound
    \/ (previous_life # <<>> /\ life < stints[Len(stints)].start_life)

\* Mutant: line 213 with != for <.
IsNewStint_AnyAgeChange(stints, compound, life, previous_life) ==
    \/ stints = <<>>
    \/ stints[Len(stints)].compound # compound
    \/ (previous_life # <<>> /\ life # previous_life[1])

\* Mutant: the tyre-life test of line 213 left out.
IsNewStint_CompoundOnly(stints, compound, life, previous_life) ==
    \/ stints = <<>>
    \/ stints[Len(stints)].compound # compound

\* Lines 210-214. previous_life is <<>> for None, <<life>> otherwise.
IsNewStint(stints, compound, life, previous_life) ==
    \/ stints = <<>>
    \/ stints[Len(stints)].compound # compound
    \/ (previous_life # <<>> /\ life < previous_life[1])

\* Mutant: the new stint starts with empty lives and laps lists.
NewStint_DropsFirst(compound, life, lap) ==
    [compound   |-> compound,
     start_life |-> life,
     start_lap  |-> lap,
     lives      |-> <<>>,
     laps       |-> <<>>]

\* Lines 217-223.
NewStint(compound, life, lap) ==
    [compound   |-> compound,
     start_life |-> life,
     start_lap  |-> lap,
     lives      |-> <<life>>,
     laps       |-> <<lap>>]

\* Lines 226-227: append to the current (last) stint.
ExtendStint(stints, life, lap) ==
    LET n == Len(stints)
    IN  [stints EXCEPT ![n].lives = Append(@, life),
                       ![n].laps  = Append(@, lap)]

RECURSIVE StintLoop(_, _, _, _)
\* The loop of lines 206-229 from position i on.
StintLoop(entries, i, stints, previous_life) ==
    IF i > Len(entries) THEN stints
    ELSE LET life     == entries[i].tyre_life
             compound == entries[i].tyre
             lap      == entries[i].lap
         IN  StintLoop(entries, i + 1,
                       IF IsNewStint(stints, compound, life, previous_life)
                       THEN Append(stints, NewStint(compound, life, lap))
                       ELSE ExtendStint(stints, life, lap),
                       <<life>>)

\* Lines 203-229 on the (sorted) entries.
BuildStints(entries) == StintLoop(entries, 1, <<>>, <<>>)

\* Mutant: the progress is not clamped at 0.
EffectiveLifeProgress_NoClamp(lap, start_lap, start_life) ==
    (start_life - 1) + Max2(0, lap - start_lap)

\* Lines 243-244.
EffectiveLifeProgress(lap, start_lap, start_life) ==
    Max2(0, (start_life - 1) + Max2(0, lap - start_lap))

\* Mutant: divides by expected_life instead of expected_life - 1.
HealthPct_FullLife(progress, expected_life) ==
    IF expected_life > 1
    THEN [num |-> 100 * expected_life - 100 * progress, den |-> expected_life]
    ELSE [num |-> 100, den |-> 1]

\* Lines 245-248: 100 - (progress / (expected_life - 1)) * 100, as a rational.
HealthPct(progress, expected_life) ==
    IF expected_life > 1
    THEN [num |-> 100 * (expected_life - 1) - 100 * progress,
          den |-> expected_life - 1]
    ELSE [num |-> 100, den |-> 1]

\* Lines 234-250 for one stint: its (lap, health) points.
StintPoints(stint) ==
    [j \in 1..Len(stint.laps) |->
        [x |-> stint.laps[j],
         y |-> HealthPct(EffectiveLifeProgress(stint.laps[j], stint.start_lap,
                                               stint.start_life),
                         ExpectedTyreLife(stint.compound))]]

RECURSIVE PlotPoints(_)
\* Lines 231-250: the points of all stints, in stint order.
PlotPoints(stints) ==
    IF stints = <<>> THEN <<>>
    ELSE StintPoints(stints[1]) \o PlotPoints(Tail(stints))

\* compute_degradation_series(entries): plot_x, plot_y.
ComputeDegradationSeries(entries) ==
    IF entries = <<>> THEN [px |-> <<>>, py |-> <<>>]
    ELSE LET pts == PlotPoints(BuildStints(SortedByFrame(entries)))
         IN  [px |-> [j \in 1..Len(pts) |-> pts[j].x],
              py |-> [j \in 1..Len(pts) |-> pts[j].y]]

----------------------------------------------------------------------------
(* update_plot (lines 178-296): the view drawn on the figure.              *)

\* Lines 185-191: the "Waiting for telemetry data..." placeholder.
PlaceholderView ==
    [kind   |-> "placeholder",
     title  |-> "",
     curves |-> <<>>,
     text   |-> "Waiting for telemetry data...",
     xlim   |-> <<0, 1>>]

\* Mutant: sorted(..., reverse=True).
SortedKeys_Descending(data) ==
    LET n == Len(DriverCodes)
        rev == [i \in 1..n |-> DriverCodes[n + 1 - i]]
    IN  SelectSeq(rev, LAMBDA c : c \in DOMAIN data)

\* sorted(self.driver_data.keys())
SortedKeys(data) == SelectSeq(DriverCodes, LAMBDA c : c \in DOMAIN data)

\* Mutant: the lap of each driver's newest entry instead of its largest lap.
MaxLap_NewestEntry(data) ==
    LET keys == SelectSeq(DriverCodes, LAMBDA c : c \in DOMAIN data /\ data[c] # <<>>)
    IN  SeqMax([i \in 1..Len(keys) |-> data[keys[i]][Len(data[keys[i]])].lap], 0)

\* Line 255: the max lap over all entries of all drivers, default 0.
MaxLap(data) ==
    LET keys == SortedKeys(data)
        nonempty == SelectSeq(keys, LAMBDA c : data[c] # <<>>)
    IN  SeqMax([i \in 1..Len(nonempty) |->
                   SeqMax([j \in 1..Len(data[nonempty[i]]) |->
                              data[nonempty[i]][j].lap], 0)],
               0)

\* Lines 267 and 292: ax.set_xlim(0, max_lap + 1).
XLim(data) == <<0, MaxLap(data) + 1>>

\* Lines 258-272: one driver selected.
SingleDriverView(data, driver) ==
    LET s == ComputeDegradationSeries(Get(data, driver, <<>>))
    IN  [kind   |-> "single",
         title  |-> driver,
         curves |-> IF s.px # <<>> /\ s.py # <<>>
                    THEN <<[label |-> driver, px |-> s.px, py |-> s.py,
                            color |-> "tab:blue"]>>
                    ELSE <<>>,
         text   |-> "",
         xlim   |-> XLim(data)]

\* Lines 275-296: all drivers, in sorted order, colour tab10[idx % 10].
AllDriversView(data) ==
    LET drivers_sorted == SortedKeys(data)
        cand == [i \in 1..Len(drivers_sorted) |->
                    LET s == ComputeDegradationSeries(Get(data, drivers_sorted[i], <<>>))
                    IN  [label |-> drivers_sorted[i], px |-> s.px, py |-> s.py,
                         color |-> (i - 1) % 10]]
        curves == SelectSeq(cand, LAMBDA c : c.px # <<>> /\ c.py # <<>>)
    IN  [kind   |-> "all",
         title  |-> ALL_DRIVERS,
         curves |-> curves,
         text   |-> IF curves = <<>> THEN "No tyre data to plot yet" ELSE "",
         xlim   |-> XLim(data)]

\* Mutant: the placeholder branch of lines 185-191 left out.
PlotOf_NoPlaceholder(data, driver) ==
    IF driver # "" /\ driver # ALL_DRIVERS THEN SingleDriverView(data, driver)
    ELSE AllDriversView(data)

\* update_plot as a function of the state it reads.
PlotOf(data, driver) ==
    IF DOMAIN data = {} THEN PlaceholderView
    ELSE IF driver # "" /\ driver # ALL_DRIVERS THEN SingleDriverView(data, driver)
    ELSE AllDriversView(data)

----------------------------------------------------------------------------
(* The telemetry frames fed to on_telemetry_data.                          *)

Fresh1   == [tyre |-> 0, tyre_life |-> 1, lap |-> 1]
Aged2    == [tyre |-> 0, tyre_life |-> 2, lap |-> 2]
Fresh2   == [tyre |-> 0, tyre_life |-> 1, lap |-> 2]
Medium1  == [tyre |-> 1, tyre_life |-> 1, lap |-> 1]
\* A driver entry with no fields at all: {}.
NoFields == <<>>

\* frame_index is the replay position: a seek backwards delivers a smaller one.
VerFrames ==
    {[frame_index |-> f[1], frame |-> [drivers |-> <<[code |-> "VER", pos |-> f[2]]>>]] :
        f \in {<<1, Fresh1>>, <<2, Aged2>>, <<2, Fresh2>>, <<2, Medium1>>}}

\* A frame without frame_index whose driver entry lacks tyre, tyre_life and lap.
SparseFrames ==
    {[frame |-> [drivers |-> <<[code |-> "VER", pos |-> NoFields]>>]]}

BothFrames ==
    {[frame_index |-> 2,
      frame |-> [drivers |-> <<[code |-> "HAM", pos |-> Aged2],
                               [code |-> "VER", pos |-> Fresh1]>>]]}

\* Data that on_telemetry_data ignores (line 129).
IgnoredFrames == {[frame_index |-> 1], [frame |-> [session |-> "R"]]}

TelemetryInputs ==
    VerFrames \cup SparseFrames \cup BothFrames \cup IgnoredFrames

----------------------------------------------------------------------------
(* The operations.                                                         *)

Init ==
    /\ current_driver = ALL_DRIVERS
    /\ driver_data = <<>>
    /\ combo_items = <<ALL_DRIVERS>>
    /\ view = PlaceholderView
    /\ frames_received = 0
    /\ appended = <<>>

\* Mutant: the fallback of lines 144-146 left out.
SelectionAfterFrame_NoFallback(items, desired, selected) == selected

\* Lines 136-146: self.current_driver once the combo holds the frame's drivers.
SelectionAfterFrame(items, desired, selected) ==
    IF items # desired /\ selected \notin Range(desired)
    THEN ALL_DRIVERS
    ELSE selected

\* Mutant: entries.sort(key=...) in place instead of sorted(entries, ...).
StoreAfterPlot_SortsInPlace(data) == [d \in DOMAIN data |-> SortedByFrame(data[d])]

\* self.driver_data after update_plot: the pass only reads it (sorted() at
\* line 197 builds a new list, .get at lines 260 and 279 inserts no key).
StoreAfterPlot(data) == data

\* Mutant: every list emptied, the driver keys kept.
ClearedStore_KeepsKeys(data) == [d \in DOMAIN data |-> <<>>]

\* Line 175: self.driver_data = {}.
ClearedStore(data) == <<>>

\* on_telemetry_data(data), lines 127-165.
OnTelemetryData(data) ==
    /\ frames_received < MaxFrames
    /\ frames_received' = frames_received + 1
    /\ IF "frame" \in DOMAIN data /\ "drivers" \in DOMAIN data.frame
       THEN LET drivers == data.frame.drivers
                driver_codes == [i \in 1..Len(drivers) |-> drivers[i].code]
                desired == <<ALL_DRIVERS>> \o driver_codes
                frame_index == Get(data, "frame_index", 0)
            IN  /\ combo_items' = desired
                /\ current_driver' = SelectionAfterFrame(combo_items, desired, current_driver)
                /\ driver_data' = RecordDrivers(driver_data, drivers, frame_index)
                /\ appended' = LogDrivers(appended, drivers, frame_index)
       ELSE UNCHANGED <<combo_items, current_driver, driver_data, appended>>
    /\ UNCHANGED view

\* on_driver_changed(driver), lines 167-171; the signal carries a combo item.
OnDriverChanged(driver) ==
    /\ driver # ""
    /\ current_driver' = driver
    /\ view' = PlotOf(driver_data, driver)
    /\ driver_data' = StoreAfterPlot(driver_data)
    /\ UNCHANGED <<combo_items, frames_received, appended>>

\* refresh_data, lines 173-176.
RefreshData ==
    /\ driver_data' = StoreAfterPlot(ClearedStore(driver_data))
    /\ appended' = <<>>
    /\ view' = PlotOf(ClearedStore(driver_data), current_driver)
    /\ UNCHANGED <<current_driver, combo_items, frames_received>>

\* update_plot on the timer of lines 55-57.
UpdatePlot ==
    /\ view' = PlotOf(driver_data, current_driver)
    /\ driver_data' = StoreAfterPlot(driver_data)
    /\ UNCHANGED <<current_driver, combo_items, frames_received, appended>>

Next ==
    \/ \E data \in TelemetryInputs : OnTelemetryData(data)
    \/ \E driver \in Range(combo_items) : OnDriverChanged(driver)
    \/ RefreshData
    \/ UpdatePlot

Spec == Init /\ [][Next]_vars

----------------------------------------------------------------------------
(* update_plot on longer histories than the arrivals above build: one      *)
(* driver, one sample per frame, tyre_life rising by one per sample, with  *)
(* an optional pit stop onto a fresh set of another compound.              *)

StartLives == 0..3
StartLaps == {1, 5}
LapSteps == {0, 1}
CurveCompounds == {0, 1, 2, 3, 4, 7}
PitStops == {0, 8}

\* The i-th sample of such a history.
CurveSample(i, compound, start_life, start_lap, step, pit) ==
    IF pit = 0 \/ i < pit
    THEN [frame |-> i, tyre |-> compound, tyre_life |-> start_life + (i - 1),
          lap |-> start_lap + step * (i - 1)]
    ELSE [frame |-> i, tyre |-> (compound + 1) % 5, tyre_life |-> 1 + (i - pit),
          lap |-> start_lap + step * (i - 1)]

CurveHistories ==
    {[i \in 1..n |-> CurveSample(i, c, a, l, st, pit)] :
        n \in 1..MaxStintLen, c \in CurveCompounds, a \in StartLives,
        l \in StartLaps, st \in LapSteps, pit \in PitStops}

CurveInit ==
    /\ \E h \in CurveHistories :
          /\ driver_data = ("VER" :> h)
          /\ appended = ("VER" :> h)
          /\ frames_received = Len(h)
    /\ current_driver \in {ALL_DRIVERS, "VER"}
    /\ combo_items = <<ALL_DRIVERS, "VER">>
    /\ view = PlaceholderView

CurveNext ==
    \/ UpdatePlot
    \/ \E driver \in Range(combo_items) : OnDriverChanged(driver)

CurveSpec == CurveInit /\ [][CurveNext]_vars

----------------------------------------------------------------------------
(* on_telemetry_data on driver entries that lack fields: every subset of   *)
(* tyre, tyre_life and lap is present, each with a value other than 0.     *)

PresentValue(field) ==
    CASE field = "tyre" -> 1
      [] field = "tyre_life" -> 2
      [] field = "lap" -> 3

PartialEntries ==
    {[field \in present |-> PresentValue(field)] :
        present \in SUBSET {"tyre", "tyre_life", "lap"}}

PartialFrames ==
    {[frame |-> [drivers |-> <<[code |-> "VER", pos |-> p]>>]] : p \in PartialEntries}

IngestNext == \E data \in PartialFrames : OnTelemetryData(data)

IngestSpec == Init /\ [][IngestNext]_vars

----------------------------------------------------------------------------
(* Properties.                                                             *)

\* The entries the segmentation loop iterates over for driver d.
Entries(d) == SortedByFrame(driver_data[d])

\* The stints update_plot derives for driver d.
Stints(d) == BuildStints(Entries(d))

NonDecreasingFrames(h) == \A i \in 1..(Len(h) - 1) : h[i].frame <= h[i + 1].frame

\* C1: in every reachable state every driver's retained history has at most
\* RetentionCap entries.
C1_RetentionBounded ==
    \A d \in DOMAIN driver_data : Len(driver_data[d]) <= RetentionCap

\* A driver at the cap for whom exactly one more sample was appended.
C1_Witness ==
    \E d \in DOMAIN driver_data :
        /\ Len(driver_data[d]) = RetentionCap
        /\ Len(appended[d]) = RetentionCap + 1

\* C2: eviction is FIFO: a driver's retained history is the last
\* min(N, RetentionCap) of the N samples appended for it, in arrival order.
C2_FifoEviction ==
    /\ DOMAIN driver_data = DOMAIN appended
    /\ \A d \in DOMAIN appended :
          LET a == appended[d]
              h == driver_data[d]
              n == Len(a)
          IN  /\ Len(h) = (IF n > RetentionCap THEN RetentionCap ELSE n)
              /\ \A i \in 1..Len(h) : h[i] = a[n - Len(h) + i]

\* More than RetentionCap samples were appended for a driver, and the evicted
\* oldest one differs from every retained one.
C2_Witness ==
    \E d \in DOMAIN appended :
        /\ Len(appended[d]) > RetentionCap
        /\ d \in DOMAIN driver_data
        /\ appended[d][1] \notin Range(driver_data[d])

RECURSIVE StintStart(_, _)
\* The position in the entries of the first sample of stint j.
StintStart(stints, j) ==
    IF j = 1 THEN 1 ELSE StintStart(stints, j - 1) + Len(stints[j - 1].lives)

\* Segmentation starts a new stint at position k of the entries.
StartsStintAt(stints, k) == \E j \in 1..Len(stints) : StintStart(stints, j) = k

\* A sample without its frame: the fields a stint keeps of it.
Sample(e) == [tyre |-> e.tyre, tyre_life |-> e.tyre_life, lap |-> e.lap]

SamplesOf(h) == [i \in 1..Len(h) |-> Sample(h[i])]

StintSamples(stint) ==
    [j \in 1..Len(stint.lives) |->
        [tyre |-> stint.compound, tyre_life |-> stint.lives[j], lap |-> stint.laps[j]]]

RECURSIVE ConcatStints(_)
\* The stints' sample sequences, concatenated in stint order.
ConcatStints(stints) ==
    IF stints = <<>> THEN <<>>
    ELSE StintSamples(stints[1]) \o ConcatStints(Tail(stints))

Permutations1(n) ==
    {f \in [1..n -> 1..n] : \A i, j \in 1..n : i # j => f[i] # f[j]}

\* pi lists the positions of h by ascending frame, equal frames in arrival order.
IsStableFrameOrder(h, pi) ==
    \A i, j \in 1..Len(h) :
        i < j => \/ h[pi[i]].frame < h[pi[j]].frame
                 \/ (h[pi[i]].frame = h[pi[j]].frame /\ pi[i] < pi[j])

\* C3 as stated: concatenating the stints reproduces each history in arrival
\* order.
C3_ArrivalOrderPartition ==
    \A d \in DOMAIN driver_data :
        ConcatStints(Stints(d)) = SamplesOf(driver_data[d])

\* C3 (amended): every stint is non-empty with as many laps as lives, and
\* concatenating the stints in stint order gives every retained sample exactly
\* once, in ascending frame order with equal frames in arrival order.
C3_FrameOrderPartition ==
    \A d \in DOMAIN driver_data :
        LET h == driver_data[d]
            stints == Stints(d)
            c == ConcatStints(stints)
        IN  /\ \A j \in 1..Len(stints) :
                  Len(stints[j].lives) >= 1 /\ Len(stints[j].laps) = Len(stints[j].lives)
            /\ Len(c) = Len(h)
            /\ \E pi \in Permutations1(Len(h)) :
                  /\ IsStableFrameOrder(h, pi)
                  /\ \A i \in 1..Len(h) : c[i] = Sample(h[pi[i]])

\* A full history in two or more stints whose frames did not arrive in order.
C3_Witness ==
    \E d \in DOMAIN driver_data :
        /\ Len(driver_data[d]) = RetentionCap
        /\ Len(Stints(d)) >= 2
        /\ ~NonDecreasingFrames(driver_data[d])
        /\ ConcatStints(Stints(d)) # SamplesOf(driver_data[d])

\* C4 as stated: the frame values stored in each history are non-decreasing in
\* arrival order.
C4_StoredFramesNonDecreasing ==
    \A d \in DOMAIN driver_data : NonDecreasingFrames(driver_data[d])

\* C4 (amended): each history stores the frame values in arrival order, so
\* they are non-decreasing whenever the appended frame values were; the
\* entries that segmentation iterates over (sorted at line 197) hold the same
\* samples with non-decreasing frame values.
C4_SortedFramesNonDecreasing ==
    \A d \in DOMAIN driver_data :
        /\ NonDecreasingFrames(Entries(d))
        /\ Len(Entries(d)) = Len(driver_data[d])
        /\ Range(Entries(d)) = Range(driver_data[d])
        /\ (d \in DOMAIN appended /\ NonDecreasingFrames(appended[d]))
              => NonDecreasingFrames(driver_data[d])

\* A history whose stored frame values decrease at some position.
C4_Witness ==
    \E d \in DOMAIN driver_data :
        \E i \in 1..(Len(driver_data[d]) - 1) :
            driver_data[d][i].frame > driver_data[d][i + 1].frame

C8_StintShape ==
    \A d \in DOMAIN driver_data :
        LET e == Entries(d)
            stints == Stints(d)
        IN  \A j \in 1..Len(stints) :
                LET st == stints[j]
                    first == StintStart(stints, j)
                IN  /\ first + Len(st.lives) - 1 <= Len(e)
                    /\ \A i \in 1..Len(st.lives) :
                          /\ e[first + i - 1].tyre = st.compound
                          /\ e[first + i - 1].tyre_life = st.lives[i]
                          /\ e[first + i - 1].lap = st.laps[i]
                    /\ \A i \in 1..(Len(st.lives) - 1) : st.lives[i] <= st.lives[i + 1]
                    /\ st.start_life = e[first].tyre_life
                    /\ st.start_lap = e[first].lap

\* A stint of two or more samples whose tyre_life rises, followed by a stint
\* that a tyre_life decrease on the same compound started.
C8_Witness ==
    \E d \in DOMAIN driver_data :
        LET stints == Stints(d)
        IN  /\ Len(stints) = 2
            /\ Len(stints[1].lives) = 2
            /\ stints[1].lives[1] < stints[1].lives[2]
            /\ stints[2].compound = stints[1].compound
            /\ stints[2].start_life < stints[1].lives[2]

\* The curve the view holds for driver d, as a set of zero or one curves.
CurvesOf(d) == {view.curves[i] : i \in {i \in DOMAIN view.curves : view.curves[i].label = d}}

\* max(0, (start_age - 1) + max(0, race_lap - start_lap))
Progress(start_age, start_lap, race_lap) ==
    LET laps_in_stint == IF race_lap > start_lap THEN race_lap - start_lap ELSE 0
        raw == (start_age - 1) + laps_in_stint
    IN  IF raw > 0 THEN raw ELSE 0

\* C9: for every sample of every stint, with the stint's first sample giving
\* start_age and start_lap and E the compound's expected life (> 1), the plotted
\* health is 100 - 100*p/(E-1), p = max(0, (start_age-1) + max(0, lap - start_lap)):
\* it is 0 exactly when p = E-1 and negative beyond; with start_age = 1, E = 20
\* and one sample per lap the i-th value (from 0) is 100 - i*100/19.
C9_HealthFormula ==
    view.kind # "placeholder" =>
        \A d \in DOMAIN driver_data :
            \A c \in CurvesOf(d) :
                LET e == Entries(d)
                    stints == Stints(d)
                IN  /\ Len(c.py) = Len(e) /\ Len(c.px) = Len(e)
                    /\ \A j \in 1..Len(stints) :
                          LET first == StintStart(stints, j)
                              E == ExpectedTyreLife(e[first].tyre)
                          IN  \A i \in first..(first + Len(stints[j].lives) - 1) :
                                  LET p == Progress(e[first].tyre_life, e[first].lap, e[i].lap)
                                      y == c.py[i]
                                  IN  /\ E > 1
                                      /\ c.px[i] = e[i].lap
                                      /\ y.den > 0
                                      /\ y.num * (E - 1) = (100 * (E - 1) - 100 * p) * y.den
                                      /\ (y.num = 0) <=> (p = E - 1)
                                      /\ (y.num < 0) <=> (p > E - 1)
                    /\ (/\ Len(stints) = 1
                        /\ e[1].tyre = 0
                        /\ e[1].tyre_life = 1
                        /\ \A i \in 2..Len(e) : e[i].lap = e[i - 1].lap + 1)
                           => \A i \in 1..Len(e) :
                                  c.py[i].num * 19 = (1900 - 100 * (i - 1)) * c.py[i].den

\* A plotted stint of 20 samples, one per lap, on compound 0 from tyre_life 1:
\* 100 at the first sample, 0 at the last.
C9_Witness ==
    /\ view.kind # "placeholder"
    /\ \E d \in DOMAIN driver_data :
          \E c \in CurvesOf(d) :
              /\ Len(driver_data[d]) = 20
              /\ Len(Stints(d)) = 1
              /\ driver_data[d][1].tyre = 0
              /\ driver_data[d][1].tyre_life = 1
              /\ driver_data[d][20].lap = driver_data[d][1].lap + 19
              /\ c.py[1].num = 100 * c.py[1].den
              /\ c.py[20].num = 0

\* C10: with no retained telemetry the view is the placeholder, and a view
\* that is not the placeholder holds at least one curve.
C10_PlaceholderWhenEmpty ==
    /\ DOMAIN driver_data = {} => view = PlaceholderView
    /\ view.kind # "placeholder" => view.curves # <<>>

\* After a reset: telemetry had arrived and a single driver is selected, the
\* store is empty and the view pass of refresh_data has run.
C10_Witness ==
    /\ DOMAIN driver_data = {}
    /\ Len(combo_items) > 1
    /\ current_driver # ALL_DRIVERS
    /\ view.kind = "placeholder"

\* The drivers of the last frame recorded: the combo's items after "All Drivers".
PresentDrivers == Range(combo_items) \ {ALL_DRIVERS}

\* C11: the selection is always "All Drivers" or a driver of the last recorded
\* frame, and an arrival whose frame lacks the selected driver sets it to
\* "All Drivers".
C11_SelectionFallsBack ==
    /\ [](current_driver = ALL_DRIVERS \/ current_driver \in PresentDrivers)
    /\ [][(frames_received' = frames_received + 1
             /\ current_driver \notin Range(combo_items'))
          => current_driver' = ALL_DRIVERS]_vars

\* HAM was selected at the last view pass and a frame without HAM has arrived
\* since: the selection is back on "All Drivers".
C11_Witness ==
    /\ view.kind = "single"
    /\ view.title = "HAM"
    /\ combo_items = <<ALL_DRIVERS, "VER">>
    /\ current_driver = ALL_DRIVERS

\* C12: a step that is no arrival and no reset (a timer tick or a selection
\* change) leaves every history as it was, and the view it draws is the view
\* another pass over the resulting state would draw.
C12_ViewPassReadsOnly ==
    [][frames_received' = frames_received
          => /\ appended' = appended => driver_data' = driver_data
             /\ view' = PlotOf(driver_data', current_driver')]_vars

\* A view pass has drawn a history of two or more entries whose frames are not
\* in ascending order, and the history is still in arrival order.
C12_Witness ==
    /\ view.kind # "placeholder"
    /\ \E d \in DOMAIN driver_data :
          /\ Len(driver_data[d]) >= 2
          /\ ~NonDecreasingFrames(driver_data[d])
          /\ \E c \in CurvesOf(d) : Len(c.px) = Len(driver_data[d])
    /\ view = PlotOf(driver_data, current_driver)

\* The appends a step makes are those of one frame: d got a sample in it.
GotSample(d) ==
    /\ d \in DOMAIN appended'
    /\ (d \notin DOMAIN appended \/ Len(appended'[d]) > Len(appended[d]))

\* C13: whatever the view shows, every arrival is taken (on_telemetry_data is
\* enabled for every input), the sample it brings for a driver is the newest
\* entry of that driver's history right after the arrival, and the arrival
\* draws nothing.
C13_IngestionNotThrottled ==
    /\ [](frames_received < MaxFrames
            => \A data \in TelemetryInputs : ENABLED OnTelemetryData(data))
    /\ [][frames_received' = frames_received + 1
            => /\ view' = view
               /\ \A d \in DriverCodesSet :
                     GotSample(d)
                        => /\ d \in DOMAIN driver_data'
                           /\ driver_data'[d][Len(driver_data'[d])]
                                 = appended'[d][Len(appended'[d])]]_vars

\* The view still shows one point for a driver whose history has since grown
\* to the cap and had another arrival: arrivals outpaced the passes.
C13_Witness ==
    \E d \in DOMAIN driver_data :
        /\ Len(appended[d]) = RetentionCap + 1
        /\ Len(driver_data[d]) = RetentionCap
        /\ \E c \in CurvesOf(d) : Len(c.px) = 1

\* C14: a pass in all-drivers mode draws one curve per driver that has
\* entries, in ascending order of driver code, each in the colour whose index
\* is the driver's position (from 0) among the sorted store keys, mod 10.
C14_AllDriversOrder ==
    [][(frames_received' = frames_received /\ view'.kind = "all")
          => LET plottable == {d \in DOMAIN driver_data' : driver_data'[d] # <<>>}
                 curves == view'.curves
             IN  /\ {curves[i].label : i \in DOMAIN curves} = plottable
                 /\ Len(curves) = Cardinality(plottable)
                 /\ \A i, j \in DOMAIN curves :
                       i < j => CodeRank(curves[i].label) < CodeRank(curves[j].label)
                 /\ \A i \in DOMAIN curves :
                       curves[i].color =
                          Cardinality({d \in DOMAIN driver_data' :
                                          CodeRank(d) < CodeRank(curves[i].label)}) % 10]_vars

\* Both drivers are drawn: HAM first in colour 0, VER second in colour 1.
C14_Witness ==
    /\ view.kind = "all"
    /\ Len(view.curves) = 2
    /\ view.curves[1].label = "HAM" /\ view.curves[1].color = 0
    /\ view.curves[2].label = "VER" /\ view.curves[2].color = 1

\* C15: a pass over a non-empty store sets the x-axis to (0, max_lap + 1), with
\* max_lap the largest lap among all retained entries of all drivers, in
\* single-driver and in all-drivers mode alike.
C15_SharedXLimit ==
    [][(frames_received' = frames_received /\ view'.kind # "placeholder")
          => LET laps == {driver_data'[d][i].lap :
                            <<d, i>> \in {<<d, i>> \in (DOMAIN driver_data') \X (1..RetentionCap) :
                                             i <= Len(driver_data'[d])}}
             IN  \E m \in laps :
                    /\ \A l \in laps : l <= m
                    /\ view'.xlim = <<0, m + 1>>]_vars

\* VER alone is drawn, every point of it at lap 1 or below, and the axis ends
\* at 3 because of another driver's lap 2.
C15_Witness ==
    /\ view.kind = "single"
    /\ view.title = "VER"
    /\ view.xlim = <<0, 3>>
    /\ \E c \in CurvesOf("VER") : \A i \in DOMAIN c.px : c.px[i] <= 1

\* C16: a driver entry lacking tyre, tyre_life or lap is accepted: the arrival
\* appends for that driver an entry holding the fields it has and 0 for each
\* field it lacks.
C16_MissingFieldsDefault ==
    frames_received < MaxFrames =>
        \A data \in PartialFrames :
            LET pos == data.frame.drivers[1].pos
                expected ==
                    [frame     |-> 0,
                     tyre      |-> IF "tyre" \in DOMAIN pos THEN pos.tyre ELSE 0,
                     tyre_life |-> IF "tyre_life" \in DOMAIN pos THEN pos.tyre_life ELSE 0,
                     lap       |-> IF "lap" \in DOMAIN pos THEN pos.lap ELSE 0]
            IN  ENABLED (/\ OnTelemetryData(data)
                         /\ "VER" \in DOMAIN driver_data'
                         /\ driver_data'["VER"][Len(driver_data'["VER"])] = expected)

\* The history holds an entry that lacked only tyre, one that lacked only
\* tyre_life and one that lacked only lap.
C16_Witness ==
    /\ "VER" \in DOMAIN driver_data
    /\ {[frame |-> 0, tyre |-> 0, tyre_life |-> 2, lap |-> 3],
        [frame |-> 0, tyre |-> 1, tyre_life |-> 0, lap |-> 3],
        [frame |-> 0, tyre |-> 1, tyre_life |-> 2, lap |-> 0]}
          \subseteq Range(driver_data["VER"])

\* C17: a reset empties the store and leaves the placeholder view, and every
\* entry a history retains is one appended since the last reset, in arrival
\* order.
C17_ResetDiscardsHistories ==
    /\ [](\A d \in DOMAIN driver_data :
             /\ d \in DOMAIN appended
             /\ Len(driver_data[d]) <= Len(appended[d])
             /\ \A i \in 1..Len(driver_data[d]) :
                   driver_data[d][i] =
                       appended[d][Len(appended[d]) - Len(driver_data[d]) + i])
    /\ [][(frames_received' = frames_received /\ appended' = <<>>)
             => (driver_data' = <<>> /\ view' = PlaceholderView)]_vars

\* Right after a reset: two drivers had been recorded (the selector still lists
\* them) and nothing is retained or shown.
C17_Witness ==
    /\ combo_items = <<ALL_DRIVERS, "HAM", "VER">>
    /\ frames_received >= 1
    /\ appended = <<>>
    /\ driver_data = <<>>
    /\ view = PlaceholderView

\* C18: when an arrival evicts the oldest entry of a history (frames in
\* arrival order before and after), every retained sample of the stint that
\* lost the entry is plotted with the same health as before the arrival.
C18_EvictionKeepsHealth ==
    [][\A d \in DOMAIN driver_data :
          (/\ frames_received' = frames_received + 1
           /\ GotSample(d)
           /\ Len(driver_data[d]) = RetentionCap
           /\ NonDecreasingFrames(driver_data[d])
           /\ NonDecreasingFrames(driver_data'[d]))
          => LET before == ComputeDegradationSeries(driver_data[d]).py
                 after  == ComputeDegradationSeries(driver_data'[d]).py
                 stint  == BuildStints(driver_data[d])[1]
             IN  \A i \in 2..Len(stint.lives) : after[i - 1] = before[i]]_vars

\* C19: every health value computed for a retained sample is at most 100, and
\* of two samples of one stint the one with the larger or equal lap never has
\* the larger health.
C19_HealthBoundedMonotone ==
    \A d \in DOMAIN driver_data :
        LET e == Entries(d)
            stints == Stints(d)
            y == ComputeDegradationSeries(driver_data[d]).py
        IN  /\ Len(y) = Len(e)
            /\ \A i \in 1..Len(y) : y[i].den > 0 /\ y[i].num <= 100 * y[i].den
            /\ \A j \in 1..Len(stints) :
                  LET first == StintStart(stints, j)
                      last == first + Len(stints[j].lives) - 1
                  IN  \A i, k \in first..last :
                          e[k].lap >= e[i].lap
                              => y[k].num * y[i].den <= y[i].num * y[k].den

\* The view shows a stint that starts at tyre_life 0, plotted at 100, in which
\* a later sample has a smaller lap and a larger health than an earlier one.
C19_Witness ==
    /\ view.kind = "single"
    /\ view.title \in DOMAIN driver_data
    /\ LET e == Entries(view.title)
           y == view.curves[1].py
       IN  /\ y = ComputeDegradationSeries(driver_data[view.title]).py
           /\ Len(Stints(view.title)) = 1
           /\ e[1].tyre_life = 0
           /\ y[1].num = 100 * y[1].den
           /\ \E i, k \in 1..Len(e) :
                 /\ i < k
                 /\ e[k].lap < e[i].lap
                 /\ y[k].num * y[i].den > y[i].num * y[k].den

====
